---- MODULE Spec2Model ----
(***************************************************************************)
(* Renewable Energy Site Analyzer (src/app.py): the data pipeline of one   *)
(* analysis run -- cached fetch, parse, clean, aggregate, classify, shape  *)
(* -- as a state machine.                                                  *)
(*                                                                         *)
(* Numbers.  Daily values are integers.  A DataFrame cell is <<v>> for the *)
(* number v and <<>> for NaN.  A mean is kept exact as the pair            *)
(* <<sum, count>>; thresholds are pairs too (6.5 is <<13, 2>>), and        *)
(* comparisons cross-multiply, so a band boundary is hit exactly.          *)
(***************************************************************************)
EXTENDS Integers, Sequences, FiniteSets, TLC

VARIABLES
    clock,      \* seconds since start, read by the cache
    cache,      \* st.cache_data store of fetch_nasa_power_data, by (lat, lon, year)
    netCalls,   \* number of requests.get calls issued so far
    lastFetch,  \* per key: the most recent requests.get (time, response, result)
    page        \* what the last script run rendered

vars == <<clock, cache, netCalls, lastFetch, page>>

----------------------------------------------------------------------------
(* Bounds of the model *)

\* most days a response lists per parameter
MaxDays == 2
\* the clock advances in steps of TTL/2, at most this many times
MaxTicks == 4
\* most requests.get calls of one behaviour
MaxCalls == 4

----------------------------------------------------------------------------
(* Program constants *)

\* @st.cache_data(ttl=3600)
TTL == 3600
\* df.replace(-999, np.nan)
SENTINEL == -999

NaN == <<>>
Num(v) == <<v>>

\* (latitude, longitude, year) as entered in the sidebar
Keys == {<<40, -74, 2024>>, <<40, -74, 2023>>}
DataKey == <<40, -74, 2024>>

----------------------------------------------------------------------------
(* The provider's responses *)

start_date(year) == year * 10000 + 101

\* the date key YYYYMMDD of the day-th day of the requested range, which
\* starts on January 1
DateKey(year, day) == start_date(year) + (day - 1)

RECURSIVE Ascending(_)
Ascending(S) ==
    IF S = {} THEN <<>>
    ELSE LET m == CHOOSE x \in S : \A y \in S : x <= y
         IN  <<m>> \o Ascending(S \ {m})

\* one parameter's JSON object, as the list of its (date key, value) items in
\* document order; f maps the days the object lists to their values
ParamMap(year, f) ==
    LET days == Ascending(DOMAIN f)
    IN  [i \in 1..Len(days) |-> <<DateKey(year, days[i]), f[days[i]]>>]

Failure(kind) == [kind |-> kind, WS10M |-> <<>>, WD10M |-> <<>>, ALLSKY_SFC_SW_DWN |-> <<>>]

\* timeout or connection failure; non-success HTTP status; JSON without
\* properties.parameter
FailureResponses == { Failure("timeout"), Failure("http_error"), Failure("no_parameter") }

OkResponse(ws, wd, sol) ==
    [kind |-> "ok", WS10M |-> ws, WD10M |-> wd, ALLSKY_SFC_SW_DWN |-> sol]

WindSpeeds == {1, 5, 8, 10}
WindDirections == {90}
SolarValues == {1, 3, 5}

\* the responses that list all MaxDays days under every parameter, each value
\* a reading or the sentinel
CompleteResponses(year) ==
    { OkResponse(ParamMap(year, ws), ParamMap(year, wd), ParamMap(year, sol)) :
        ws \in [1..MaxDays -> WindSpeeds \cup {SENTINEL}],
        wd \in [1..MaxDays -> WindDirections \cup {SENTINEL}],
        sol \in [1..MaxDays -> SolarValues \cup {SENTINEL}] }

\* the readings of the day-th day in the responses below
DayReading(day) == [ws |-> 2 * day, wd |-> 90 * day, sol |-> 2 * day - 1]

\* the responses in which each parameter lists its own subset of the days
GappyResponses(year) ==
    { OkResponse(ParamMap(year, [d \in W |-> DayReading(d).ws]),
                 ParamMap(year, [d \in D |-> DayReading(d).wd]),
                 ParamMap(year, [d \in S |-> DayReading(d).sol])) :
        W \in SUBSET (1..MaxDays), D \in SUBSET (1..MaxDays), S \in SUBSET (1..MaxDays) }

RichResponses(year) ==
    FailureResponses \cup CompleteResponses(year) \cup GappyResponses(year)

\* a handful of responses of one day, for the runs that exercise the cache
SmallResponses(year) ==
    FailureResponses \cup
    { OkResponse(<<<<DateKey(year, 1), w>>>>, <<<<DateKey(year, 1), 90>>>>,
                 <<<<DateKey(year, 1), 3>>>>) : w \in {5, SENTINEL} }

----------------------------------------------------------------------------
(* fetch_nasa_power_data *)

\* pd.to_datetime(key, format='%Y%m%d')
to_datetime(key) ==
    [year |-> key \div 10000, month |-> (key \div 100) % 100, day |-> key % 100]

\* list(d.keys()), list(d.values())
keys(items) == [i \in 1..Len(items) |-> items[i][1]]
values(items) == [i \in 1..Len(items) |-> items[i][2]]

None(msg) == [isNone |-> TRUE, rows |-> <<>>, error |-> msg]
Frame(rows) == [isNone |-> FALSE, rows |-> rows, error |-> ""]

\* DataFrame.replace(-999, np.nan), on one cell
replace_cell(c) == IF c = Num(SENTINEL) THEN NaN ELSE c

\* replace applied to the wind_speed column alone
replace_wind_speed_only(rows) ==
    [i \in 1..Len(rows) |->
        [rows[i] EXCEPT !.wind_speed = IF @ = <<SENTINEL>> THEN <<>> ELSE @]]

\* df.replace(-999, np.nan): every column; the datetime column holds no number
replace(rows) ==
    [i \in 1..Len(rows) |->
        [date             |-> rows[i].date,
         wind_speed       |-> replace_cell(rows[i].wind_speed),
         wind_direction   |-> replace_cell(rows[i].wind_direction),
         solar_irradiance |-> replace_cell(rows[i].solar_irradiance)]]

\* pd.DataFrame({...}) of four lists of one length: row i takes the i-th item
\* of each list
DataFrame(dates, ws, wd, sol) ==
    [i \in 1..Len(dates) |->
        [date             |-> dates[i],
         wind_speed       |-> Num(ws[i]),
         wind_direction   |-> Num(wd[i]),
         solar_irradiance |-> Num(sol[i])]]

\* the function body, given what requests.get brings back
fetch_nasa_power_data(resp) ==
    IF resp.kind \in {"timeout", "http_error"}
    THEN None("Error fetching data")
    ELSE IF resp.kind = "no_parameter"
    THEN None("Unexpected data format from API")
    ELSE LET wind_speed == resp.WS10M
             wind_direction == resp.WD10M
             solar_irradiance == resp.ALLSKY_SFC_SW_DWN
             dates == [i \in 1..Len(wind_speed) |-> to_datetime(keys(wind_speed)[i])]
         IN  IF Len(wind_direction) # Len(wind_speed)
                \/ Len(solar_irradiance) # Len(wind_speed)
             THEN None("Error processing data")  \* ValueError: arrays of unequal length
             ELSE Frame(replace(DataFrame(dates, values(wind_speed),
                                          values(wind_direction),
                                          values(solar_irradiance))))

----------------------------------------------------------------------------
(* calculate_metrics: Series.mean(), .max(), .sum() with pandas' skipna *)

wind_speed_column(rows) == [i \in 1..Len(rows) |-> rows[i].wind_speed]
wind_direction_column(rows) == [i \in 1..Len(rows) |-> rows[i].wind_direction]
solar_irradiance_column(rows) == [i \in 1..Len(rows) |-> rows[i].solar_irradiance]
date_column(rows) == [i \in 1..Len(rows) |-> rows[i].date]

\* the sum of the non-NaN cells; the empty sum is 0
RECURSIVE nansum(_)
nansum(col) ==
    IF col = <<>> THEN 0
    ELSE (IF Head(col) = NaN THEN 0 ELSE Head(col)[1]) + nansum(Tail(col))

\* a count that takes NaN cells for readings of 0
count_fillna(col) == Len(col)

\* Series.count(): the number of non-NaN cells
RECURSIVE count(_)
count(col) ==
    IF col = <<>> THEN 0
    ELSE (IF Head(col) = NaN THEN 0 ELSE 1) + count(Tail(col))

\* Series.mean(): NaN when no cell holds a number, else sum / count
series_mean(col) ==
    IF count(col) = 0 THEN NaN ELSE <<nansum(col), count(col)>>

\* Series.max(): NaN when no cell holds a number
RECURSIVE series_max(_)
series_max(col) ==
    IF col = <<>> THEN NaN
    ELSE LET rest == series_max(Tail(col))
         IN  IF Head(col) = NaN THEN rest
             ELSE IF rest = NaN THEN Head(col)
             ELSE IF Head(col)[1] >= rest[1] THEN Head(col) ELSE rest

\* Series.sum(): min_count is 0, so a column of NaN sums to 0
series_sum(col) == Num(nansum(col))

calculate_metrics(rows) ==
    [avg_wind_speed      |-> series_mean(wind_speed_column(rows)),
     avg_solar_radiation |-> series_mean(solar_irradiance_column(rows)),
     max_wind_speed      |-> series_max(wind_speed_column(rows)),
     max_solar_radiation |-> series_max(solar_irradiance_column(rows)),
     total_solar_energy  |-> series_sum(solar_irradiance_column(rows))]

----------------------------------------------------------------------------
(* The energy potential assessment of the main workflow *)

\* avg < t for a mean avg = <<sum, count>> and a threshold t = <<num, den>>;
\* every comparison with NaN is False
Less(avg, t) == avg # NaN /\ avg[1] * t[2] < t[1] * avg[2]

\* the wind bands with the Good band closed at 6.5 from below
wind_assessment_open_lower(avg_wind_speed) ==
    IF Less(avg_wind_speed, <<3, 1>>) THEN "Poor"
    ELSE IF Less(avg_wind_speed, <<5, 1>>) THEN "Marginal"
    ELSE IF avg_wind_speed # NaN /\ 2 * avg_wind_speed[1] <= 13 * avg_wind_speed[2] THEN "Fair"
    ELSE IF Less(avg_wind_speed, <<15, 2>>) THEN "Good"
    ELSE "Excellent"

wind_assessment(avg_wind_speed) ==
    IF Less(avg_wind_speed, <<3, 1>>) THEN "Poor"
    ELSE IF Less(avg_wind_speed, <<5, 1>>) THEN "Marginal"
    ELSE IF Less(avg_wind_speed, <<13, 2>>) THEN "Fair"
    ELSE IF Less(avg_wind_speed, <<15, 2>>) THEN "Good"
    ELSE "Excellent"

\* the solar bands with Poor reaching up to and including 3
solar_assessment_open_lower(avg_solar_radiation) ==
    IF avg_solar_radiation # NaN /\ avg_solar_radiation[1] <= 3 * avg_solar_radiation[2] THEN "Poor"
    ELSE IF Less(avg_solar_radiation, <<4, 1>>) THEN "Fair"
    ELSE IF Less(avg_solar_radiation, <<5, 1>>) THEN "Good"
    ELSE "Excellent"

solar_assessment(avg_solar_radiation) ==
    IF Less(avg_solar_radiation, <<3, 1>>) THEN "Poor"
    ELSE IF Less(avg_solar_radiation, <<4, 1>>) THEN "Fair"
    ELSE IF Less(avg_solar_radiation, <<5, 1>>) THEN "Good"
    ELSE "Excellent"

----------------------------------------------------------------------------
(* Charts and export *)

NoFigure == [isNone |-> TRUE, direction |-> <<>>, speed |-> <<>>]

\* dropna over every column of the frame
dropna_every_column(rows) ==
    SelectSeq(rows, LAMBDA r : r.wind_speed # <<>> /\ r.wind_direction # <<>>
                                /\ r.solar_irradiance # <<>>)

\* df[['wind_speed', 'wind_direction']].dropna()
dropna(rows) ==
    SelectSeq(rows, LAMBDA r : r.wind_speed # NaN /\ r.wind_direction # NaN)

create_wind_rose(rows) ==
    LET clean_df == dropna(rows)
    IN  IF Len(clean_df) = 0 THEN NoFigure
        ELSE [isNone    |-> FALSE,
              direction |-> wind_direction_column(clean_df),
              speed     |-> wind_speed_column(clean_df)]

NoChart == [x |-> <<>>, y |-> <<>>]

create_time_series_charts(rows) ==
    [wind_fig  |-> [x |-> date_column(rows), y |-> wind_speed_column(rows)],
     solar_fig |-> [x |-> date_column(rows), y |-> solar_irradiance_column(rows)]]

\* a number of a CSV line; NaN is written as the empty field
csv_field(c) == IF c = NaN THEN "" ELSE ToString(c[1])

two_digits(n) == IF n < 10 THEN "0" \o ToString(n) ELSE ToString(n)

csv_date(d) == ToString(d.year) \o "-" \o two_digits(d.month) \o "-" \o two_digits(d.day)

\* data_df.to_csv(index=False): the header line, then one line per row
to_csv(rows) ==
    << <<"date", "wind_speed", "wind_direction", "solar_irradiance">> >> \o
    [i \in 1..Len(rows) |->
        <<csv_date(rows[i].date), csv_field(rows[i].wind_speed),
          csv_field(rows[i].wind_direction), csv_field(rows[i].solar_irradiance)>>]

----------------------------------------------------------------------------
(* The page a script run renders *)

NoMetrics ==
    [avg_wind_speed |-> NaN, avg_solar_radiation |-> NaN, max_wind_speed |-> NaN,
     max_solar_radiation |-> NaN, total_solar_energy |-> NaN]

Blank ==
    [status |-> "instructions", key |-> <<0, 0, 0>>, error |-> "", data_df |-> None(""),
     metrics |-> NoMetrics, wind_assessment |-> "", solar_assessment |-> "",
     wind_fig |-> NoChart, solar_fig |-> NoChart, wind_rose_fig |-> NoFigure,
     warning |-> "", csv |-> <<>>, days |-> 0]

\* the branch "if data_df is not None and not data_df.empty" and its else;
\* st.error of the fetch is part of the cached call and is shown again on a hit
Results(k, data_df) ==
    IF ~data_df.isNone /\ Len(data_df.rows) > 0
    THEN LET metrics == calculate_metrics(data_df.rows)
             figs == create_time_series_charts(data_df.rows)
             wind_rose_fig == create_wind_rose(data_df.rows)
         IN  [status           |-> "complete",
              key              |-> k,
              error            |-> data_df.error,
              data_df          |-> data_df,
              metrics          |-> metrics,
              wind_assessment  |-> wind_assessment(metrics.avg_wind_speed),
              solar_assessment |-> solar_assessment(metrics.avg_solar_radiation),
              wind_fig         |-> figs.wind_fig,
              solar_fig        |-> figs.solar_fig,
              wind_rose_fig    |-> wind_rose_fig,
              warning          |-> IF wind_rose_fig.isNone
                                   THEN "Unable to generate wind rose - insufficient data"
                                   ELSE "",
              csv              |-> to_csv(data_df.rows),
              days             |-> Len(data_df.rows)]
    ELSE [Blank EXCEPT !.status = "failed", !.key = k, !.error = data_df.error,
                       !.data_df = data_df]

----------------------------------------------------------------------------
(* The cache of @st.cache_data(ttl=3600) *)

NoEntry == [present |-> FALSE, value |-> None(""), expires |-> 0]

NeverFetched == [fetched |-> FALSE, at |-> 0, resp |-> Failure("timeout"), result |-> None("")]

\* a cache whose entries never expire
CacheHit_without_ttl(k) == cache[k].present

\* an entry is served while the clock is before its expiry
CacheHit(k) == cache[k].present /\ clock < cache[k].expires

\* the entry written after a call of the function body: whatever it returned
Store(value) == [present |-> TRUE, value |-> value, expires |-> clock + TTL]

----------------------------------------------------------------------------
(* Actions *)

Init ==
    /\ clock = 0
    /\ cache = [k \in Keys |-> NoEntry]
    /\ netCalls = 0
    /\ lastFetch = [k \in Keys |-> NeverFetched]
    /\ page = Blank

\* a script run with the Analyze button pressed, for the sidebar inputs k;
\* Responses is what the provider may answer if it is asked
Analyze(k, Responses) ==
    IF CacheHit(k)
    THEN /\ page' = Results(k, cache[k].value)
         /\ UNCHANGED <<clock, cache, netCalls, lastFetch>>
    ELSE /\ netCalls < MaxCalls
         /\ \E resp \in Responses :
              LET data_df == fetch_nasa_power_data(resp)
              IN  /\ cache' = [cache EXCEPT ![k] = Store(data_df)]
                  /\ lastFetch' = [lastFetch EXCEPT ![k] =
                        [fetched |-> TRUE, at |-> clock, resp |-> resp, result |-> data_df]]
                  /\ page' = Results(k, data_df)
         /\ netCalls' = netCalls + 1
         /\ UNCHANGED clock

\* a script run without the button: the instructions are shown
NoAnalyze ==
    /\ page' = Blank
    /\ UNCHANGED <<clock, cache, netCalls, lastFetch>>

\* time passes between script runs
Tick ==
    /\ clock + TTL \div 2 <= MaxTicks * (TTL \div 2)
    /\ clock' = clock + TTL \div 2
    /\ UNCHANGED <<cache, netCalls, lastFetch, page>>

AnalyzeAny == \E k \in Keys : Analyze(k, SmallResponses(k[3]))

Next == AnalyzeAny \/ NoAnalyze \/ Tick

Spec == Init /\ [][Next]_vars

\* one location and year, the responses of up to MaxDays days
AnalyzeData == Analyze(DataKey, RichResponses(DataKey[3]))

NextData == AnalyzeData

SpecData == Init /\ [][NextData]_vars

----------------------------------------------------------------------------
(* Properties *)

Bands == {"Poor", "Marginal", "Fair", "Good", "Excellent"}

Rows == page.data_df.rows
Fetched == lastFetch[DataKey]

\* the rows of a column that hold a number
Valid(col) == { i \in 1..Len(col) : col[i] # NaN }

RECURSIVE SumAt(_, _)
SumAt(col, I) ==
    IF I = {} THEN 0
    ELSE LET i == CHOOSE j \in I : TRUE
         IN  col[i][1] + SumAt(col, I \ {i})

\* the value a response lists for a date key under one parameter, cleaned;
\* NaN when the parameter has no entry for the key
Listed(items, key) ==
    IF \E i \in 1..Len(items) : items[i][1] = key
    THEN LET i == CHOOSE j \in 1..Len(items) : items[j][1] = key
         IN  IF items[i][2] = SENTINEL THEN NaN ELSE <<items[i][2]>>
    ELSE NaN

DateKeyOf(date) == date.year * 10000 + date.month * 100 + date.day

\* C1: an analyze call for a key fetched less than TTL seconds ago issues no
\* request and shows the result of that fetch; one made TTL seconds or more
\* after the key's last fetch issues exactly one request.
CachedWithinTTL ==
    [][\A k \in Keys :
          (Analyze(k, SmallResponses(k[3])) /\ lastFetch[k].fetched) =>
              IF clock < lastFetch[k].at + TTL
              THEN /\ netCalls' = netCalls
                   /\ lastFetch' = lastFetch
                   /\ page'.key = k
                   /\ page'.data_df = lastFetch[k].result
              ELSE /\ netCalls' = netCalls + 1
                   /\ lastFetch'[k].at = clock]_vars

\* C1 witness: the page shows key k, fetched before the other key was and
\* less than TTL seconds ago: it was rendered from the cache.
CachedWithinTTLWitness ==
    \E k \in Keys, o \in Keys :
        /\ page.status = "complete" /\ page.key = k
        /\ lastFetch[k].fetched /\ lastFetch[o].fetched
        /\ lastFetch[k].at < lastFetch[o].at
        /\ clock < lastFetch[k].at + TTL
        /\ netCalls = 2

\* C2: an analyze call for a key whose last fetch failed issues a new request.
FailedFetchIsFetchedAgain ==
    [][\A k \in Keys :
          (Analyze(k, SmallResponses(k[3])) /\ lastFetch[k].fetched
             /\ lastFetch[k].result.isNone) =>
              netCalls' = netCalls + 1]_vars

\* C3: a defined average wind speed is classified by the half-open bands
\* <3 Poor, [3,5) Marginal, [5,6.5) Fair, [6.5,7.5) Good, >=7.5 Excellent.
WindBands ==
    (page.status = "complete" /\ page.metrics.avg_wind_speed # NaN) =>
        LET s == page.metrics.avg_wind_speed[1]
            n == page.metrics.avg_wind_speed[2]
        IN  /\ page.wind_assessment \in Bands
            /\ (page.wind_assessment = "Poor") = (s < 3 * n)
            /\ (page.wind_assessment = "Marginal") = (3 * n <= s /\ s < 5 * n)
            /\ (page.wind_assessment = "Fair") = (5 * n <= s /\ 2 * s < 13 * n)
            /\ (page.wind_assessment = "Good") = (13 * n <= 2 * s /\ 2 * s < 15 * n)
            /\ (page.wind_assessment = "Excellent") = (15 * n <= 2 * s)

\* C3 witness: an average of exactly 6.5 is shown as Good.
WindBandsWitness ==
    /\ page.status = "complete" /\ page.metrics.avg_wind_speed # NaN
    /\ 2 * page.metrics.avg_wind_speed[1] = 13 * page.metrics.avg_wind_speed[2]
    /\ page.wind_assessment = "Good"

\* C4: a defined average solar irradiance is classified by the half-open
\* bands <3 Poor, [3,4) Fair, [4,5) Good, >=5 Excellent.
SolarBands ==
    (page.status = "complete" /\ page.metrics.avg_solar_radiation # NaN) =>
        LET s == page.metrics.avg_solar_radiation[1]
            n == page.metrics.avg_solar_radiation[2]
        IN  /\ page.solar_assessment \in {"Poor", "Fair", "Good", "Excellent"}
            /\ (page.solar_assessment = "Poor") = (s < 3 * n)
            /\ (page.solar_assessment = "Fair") = (3 * n <= s /\ s < 4 * n)
            /\ (page.solar_assessment = "Good") = (4 * n <= s /\ s < 5 * n)
            /\ (page.solar_assessment = "Excellent") = (5 * n <= s)

\* C4 witness: an average of exactly 3 is shown as Fair.
SolarBandsWitness ==
    /\ page.status = "complete" /\ page.metrics.avg_solar_radiation # NaN
    /\ page.metrics.avg_solar_radiation[1] = 3 * page.metrics.avg_solar_radiation[2]
    /\ page.solar_assessment = "Fair"

\* C5: when every wind speed of the analysed series is missing, the average
\* and maximum wind speed are undefined and no wind band is shown.
AllWindMissingShowsNoBand ==
    (page.status = "complete" /\ Valid(wind_speed_column(Rows)) = {}) =>
        /\ page.metrics.avg_wind_speed = NaN
        /\ page.metrics.max_wind_speed = NaN
        /\ page.wind_assessment \notin Bands

\* C6: a response with the three parameters yields a series, with one record
\* for every date key listed, each record carrying for each parameter the
\* value listed under its date key, or NaN when the parameter lists none.
RecordsAlignedByDate ==
    (Fetched.fetched /\ Fetched.resp.kind = "ok") =>
        LET resp == Fetched.resp
            rows == Fetched.result.rows
            listed == { resp.WS10M[i][1] : i \in 1..Len(resp.WS10M) }
                      \cup { resp.WD10M[i][1] : i \in 1..Len(resp.WD10M) }
                      \cup { resp.ALLSKY_SFC_SW_DWN[i][1] :
                                i \in 1..Len(resp.ALLSKY_SFC_SW_DWN) }
        IN  /\ ~Fetched.result.isNone
            /\ { DateKeyOf(rows[i].date) : i \in 1..Len(rows) } = listed
            /\ \A i \in 1..Len(rows) :
                 LET key == DateKeyOf(rows[i].date)
                 IN  /\ rows[i].wind_speed = Listed(resp.WS10M, key)
                     /\ rows[i].wind_direction = Listed(resp.WD10M, key)
                     /\ rows[i].solar_irradiance = Listed(resp.ALLSKY_SFC_SW_DWN, key)

\* C7: each aggregate is taken over exactly the non-missing entries of its own
\* column: the mean is their sum over their number, the maximum is the
\* greatest of them, the solar total is their sum; and wind [2,4,6] with
\* solar [1,3,5] gives 4, 6, 3, 5 and 9.
AggregatesSkipMissing ==
    /\ page.status = "complete" =>
        LET wind == wind_speed_column(Rows)
            solar == solar_irradiance_column(Rows)
            W == Valid(wind)
            S == Valid(solar)
            m == page.metrics
        IN  /\ W # {} =>
                 /\ m.avg_wind_speed = <<SumAt(wind, W), Cardinality(W)>>
                 /\ \E i \in W : m.max_wind_speed = wind[i]
                 /\ \A i \in W : wind[i][1] <= m.max_wind_speed[1]
            /\ S # {} =>
                 /\ m.avg_solar_radiation = <<SumAt(solar, S), Cardinality(S)>>
                 /\ \E i \in S : m.max_solar_radiation = solar[i]
                 /\ \A i \in S : solar[i][1] <= m.max_solar_radiation[1]
                 /\ m.total_solar_energy = <<SumAt(solar, S)>>
    /\ LET d == [year |-> 2024, month |-> 1, day |-> 1]
           example == calculate_metrics(
               << [date |-> d, wind_speed |-> <<2>>, wind_direction |-> <<90>>,
                   solar_irradiance |-> <<1>>],
                  [date |-> d, wind_speed |-> <<4>>, wind_direction |-> <<90>>,
                   solar_irradiance |-> <<3>>],
                  [date |-> d, wind_speed |-> <<6>>, wind_direction |-> <<90>>,
                   solar_irradiance |-> <<5>>] >>)
       IN  /\ example.avg_wind_speed[1] = 4 * example.avg_wind_speed[2]
           /\ example.max_wind_speed = <<6>>
           /\ example.avg_solar_radiation[1] = 3 * example.avg_solar_radiation[2]
           /\ example.max_solar_radiation = <<5>>
           /\ example.total_solar_energy = <<9>>

\* C7 witness: a day without wind speed but with solar irradiance, beside a
\* day with a wind speed; every day counts for solar, not every day for wind.
AggregatesSkipMissingWitness ==
    /\ page.status = "complete"
    /\ \E i \in 1..Len(Rows) : Rows[i].wind_speed = NaN /\ Rows[i].solar_irradiance # NaN
    /\ page.metrics.avg_wind_speed # NaN
    /\ page.metrics.avg_wind_speed[2] < Len(Rows)
    /\ page.metrics.avg_solar_radiation # NaN
    /\ page.metrics.avg_solar_radiation[2] = Len(Rows)

\* C8: when every solar irradiance of the analysed series is missing, the
\* average, the maximum and the total solar irradiance are all undefined.
AllSolarMissingIsUndefined ==
    (page.status = "complete" /\ Valid(solar_irradiance_column(Rows)) = {}) =>
        /\ page.metrics.avg_solar_radiation = NaN
        /\ page.metrics.max_solar_radiation = NaN
        /\ page.metrics.total_solar_energy = NaN

\* C9: in a returned series every cell is the value of the response at its
\* place, with the sentinel -999 turned into NaN and any other value kept; no
\* cell holds -999; cleaning the series again changes nothing.
CleaningIsTotalAndIdempotent ==
    (Fetched.fetched /\ ~Fetched.result.isNone) =>
        LET resp == Fetched.resp
            rows == Fetched.result.rows
            Clean(v) == IF v = SENTINEL THEN NaN ELSE <<v>>
        IN  /\ Len(rows) = Len(resp.WS10M)
            /\ \A i \in 1..Len(rows) :
                 /\ rows[i].date = to_datetime(resp.WS10M[i][1])
                 /\ rows[i].wind_speed = Clean(resp.WS10M[i][2])
                 /\ rows[i].wind_direction = Clean(resp.WD10M[i][2])
                 /\ rows[i].solar_irradiance = Clean(resp.ALLSKY_SFC_SW_DWN[i][2])
                 /\ rows[i].wind_speed # <<SENTINEL>>
                 /\ rows[i].wind_direction # <<SENTINEL>>
                 /\ rows[i].solar_irradiance # <<SENTINEL>>
            /\ replace(rows) = rows

\* C9 witness: a returned series with a day whose wind direction was the
\* sentinel and whose other two values were readings.
CleaningWitness ==
    /\ Fetched.fetched /\ ~Fetched.result.isNone
    /\ \E i \in 1..Len(Fetched.result.rows) :
         /\ Fetched.resp.WD10M[i][2] = SENTINEL
         /\ Fetched.result.rows[i].wind_direction = NaN
         /\ Fetched.result.rows[i].wind_speed # NaN
         /\ Fetched.result.rows[i].solar_irradiance # NaN

\* C10: the wind rose is drawn from exactly the days that have both a wind
\* speed and a wind direction, in date order; with no such day no figure is
\* made and the insufficient-data warning is shown; either way the two time
\* series keep one entry per day, NaN included, and the metrics and the CSV
\* lines of every day are on the page.
WindRoseOrInsufficientData ==
    page.status = "complete" =>
        LET both == { i \in 1..Len(Rows) :
                        Rows[i].wind_speed # NaN /\ Rows[i].wind_direction # NaN }
            order == Ascending(both)
            fig == page.wind_rose_fig
        IN  /\ Len(Rows) > 0
            /\ fig.isNone = (both = {})
            /\ fig.isNone = (page.warning = "Unable to generate wind rose - insufficient data")
            /\ Len(fig.speed) = Cardinality(both) /\ Len(fig.direction) = Cardinality(both)
            /\ \A j \in 1..Len(order) :
                 /\ fig.speed[j] = Rows[order[j]].wind_speed
                 /\ fig.direction[j] = Rows[order[j]].wind_direction
            /\ Len(page.wind_fig.y) = Len(Rows) /\ Len(page.wind_fig.x) = Len(Rows)
            /\ Len(page.solar_fig.y) = Len(Rows) /\ Len(page.solar_fig.x) = Len(Rows)
            /\ \A i \in 1..Len(Rows) :
                 /\ page.wind_fig.x[i] = Rows[i].date
                 /\ page.wind_fig.y[i] = Rows[i].wind_speed
                 /\ page.solar_fig.x[i] = Rows[i].date
                 /\ page.solar_fig.y[i] = Rows[i].solar_irradiance
            /\ page.metrics.total_solar_energy # NaN
            /\ Len(page.csv) = Len(Rows) + 1
            /\ page.days = Len(Rows)

\* C10 witness: every wind direction is missing and some wind speed is not:
\* no figure, the warning, and a wind time series with a reading in it.
InsufficientDataWitness ==
    /\ page.status = "complete"
    /\ \A i \in 1..Len(Rows) : Rows[i].wind_direction = NaN
    /\ \E i \in 1..Len(Rows) : page.wind_fig.y[i] # NaN
    /\ page.wind_rose_fig.isNone
    /\ page.warning = "Unable to generate wind rose - insufficient data"
    /\ Len(page.csv) = Len(Rows) + 1

====
